---- MODULE Spec2Model ----
(***************************************************************************)
(* Model of the limit order book of lob.py (class LimitOrderBook).         *)
(*                                                                         *)
(* One process() call walks the rows of a DataFrame; every row is an order *)
(* event that is dispatched to add, cancel or modify.  The matching loops  *)
(* of add (a while loop around a for loop over a snapshot of the keys of   *)
(* one price level queue) are modelled statement block by statement block: *)
(* pc is the position inside process/add, and no new row is taken before   *)
(* pc is back at "idle".                                                   *)
(*                                                                         *)
(* Prices are counted in ticks.  A price level queue (an odict keyed by    *)
(* order number) is a sequence of order records without repeated           *)
(* order_number, oldest first.  Of the dict that is stored for a resting   *)
(* order the model keeps the fields that the code reads back.              *)
(***************************************************************************)
EXTENDS Integers, Sequences, FiniteSets, TLC

\* Bounds of the model.
MaxEvents == 3
MaxOrderNumber == 3
\* The rows of a run of LongSpec, which takes new orders and market orders only.
MaxRows == 4

\* Aliases for bids and asks.
BID == "B"
BUY == "B"
ASK == "S"
SELL == "S"

\* Python's None where a price or a day of the month is expected.
None == 0
\* Stands for the RuntimeError('empty price level detected') of best_*_price.
EmptyLevel == -1

\* The limit prices (in ticks) and the volumes rows carry.  With volumes 1 and
\* 3 a resting order can be smaller than, equal to and larger than what is
\* left of an incoming order, and a partial fill leaves a third volume.
Prices == {1, 2}
Volumes == {1, 3}
\* A modify can also carry an original volume above that of every ADD.
ModifyVolumes == Volumes \cup {4}
OrderNumbers == 1..MaxOrderNumber

\* trans_date values (MM/DD of one year), in chronological order.
Dates ==
  { [month |-> 9, day |-> 14], [month |-> 9, day |-> 15], [month |-> 10, day |-> 14] }
NoDate == [month |-> 0, day |-> 0]
DateLE(a, b) == a.month < b.month \/ (a.month = b.month /\ a.day <= b.day)

\* datetime.strptime(order['trans_date'], '%m/%d/%Y').day : the day of the month.
TransDay(trans_date) == trans_date.day

NoOrder ==
  [ order_number |-> 0, trans_date |-> NoDate, trans_time |-> 0,
    buy_sell_indicator |-> "", activity_type |-> 0, volume_disclosed |-> 0,
    volume_original |-> 0, limit_price |-> 0, mkt_flag |-> "" ]

\* What is kept of the dict stored in a price level queue.
Stored(order) ==
  [ order_number |-> order.order_number,
    buy_sell_indicator |-> order.buy_sell_indicator,
    volume_disclosed |-> order.volume_disclosed,
    volume_original |-> order.volume_original,
    limit_price |-> order.limit_price,
    mkt_flag |-> order.mkt_flag ]

EmptyMap == [k \in {} |-> k]

Max(S) == CHOOSE x \in S : \A y \in S : y <= x
Min(S) == CHOOSE x \in S : \A y \in S : x <= y

VARIABLES
  book,             \* self._book_data : side -> (price -> queue)
  trade_counter,    \* self._trade_counter
  trades,           \* self._trades : trade number -> trade
  day,              \* process(): the local variable day
  pc,               \* position: "idle", "dispatch", "while", "for" or "error"
  err,              \* the exception that ended process(), "" if none
  new_order,        \* add(): the order being added
  volume_original,  \* add(): the local variable volume_original
  best_price,       \* add(): the local variable best_price
  keys,             \* add(): what is left of od.keys() in the for loop
  trans_date,       \* process(): trans_date of the row taken last
  prev_date,        \* at "dispatch": trans_date of the row before this one
  nevents,          \* number of rows taken so far
  nadds,            \* number of activity_type 1 rows taken so far
  at_row            \* at "dispatch": book and counter when the row was taken

vars ==
  << book, trade_counter, trades, day, pc, err, new_order, volume_original,
     best_price, keys, trans_date, prev_date, nevents, nadds, at_row >>

engine == << book, trade_counter, trades >>
locals == << new_order, volume_original, best_price, keys >>
stream == << trans_date, prev_date, nevents, nadds, at_row >>

----------------------------------------------------------------------------
\* odict as a sequence of records keyed by order_number.

\* od.keys() yielding the newest order first.
OdKeys_newest_first(od) == [i \in 1..Len(od) |-> od[Len(od) + 1 - i].order_number]
\* od.keys(): the keys, oldest first.
OdKeys(od) == [i \in 1..Len(od) |-> od[i].order_number]
OdHas(od, k) == \E i \in 1..Len(od) : od[i].order_number = k
OdIndex(od, k) == CHOOSE i \in 1..Len(od) : od[i].order_number = k
OdGet(od, k) == od[OdIndex(od, k)]
\* od[k] = v : an existing key keeps its place, a new key goes last.
OdSet(od, k, v) ==
  IF OdHas(od, k) THEN [od EXCEPT ![OdIndex(od, k)] = v] ELSE Append(od, v)
\* od.pop(k) that leaves the key where it is.
OdPop_nothing(od, k) == od
\* od.pop(k)
OdPop(od, k) == SelectSeq(od, LAMBDA o : o.order_number # k)

\* dict[price] = od and dict.pop(price) on one side of the book.
LevelSet(levels, price, od) ==
  [p \in (DOMAIN levels) \cup {price} |-> IF p = price THEN od ELSE levels[p]]
LevelPop(levels, price) ==
  [p \in (DOMAIN levels) \ {price} |-> levels[p]]

EmptyBook == [d \in {BID, ASK} |-> EmptyMap]

\* The value of at_row while no row is between its day check and its handler.
NoRow == [book |-> EmptyBook, trade_counter |-> 0]

clear_book(bk) == [d \in DOMAIN bk |-> EmptyMap]

create_level(bk, indicator, price) ==
  [bk EXCEPT ![indicator] = LevelSet(bk[indicator], price, << >>)]

delete_level(bk, indicator, price) ==
  [bk EXCEPT ![indicator] = LevelPop(bk[indicator], price)]

\* delete_order without the removal of a level that became empty.
delete_order_keeps_level(bk, indicator, price, order_number) ==
  [bk EXCEPT ![indicator] =
     LevelSet(bk[indicator], price, OdPop(bk[indicator][price], order_number))]

delete_order(bk, indicator, price, order_number) ==
  LET od == OdPop(bk[indicator][price], order_number)
      popped == [bk EXCEPT ![indicator] = LevelSet(bk[indicator], price, od)]
  IN  IF od = << >> THEN delete_level(popped, indicator, price) ELSE popped

best_bid_price(bk) ==
  LET prices == DOMAIN bk[BID]
  IN  IF prices = {} THEN None
      ELSE IF bk[BID][Max(prices)] = << >> THEN EmptyLevel
      ELSE Max(prices)

best_ask_price(bk) ==
  LET prices == DOMAIN bk[ASK]
  IN  IF prices = {} THEN None
      ELSE IF bk[ASK][Min(prices)] = << >> THEN EmptyLevel
      ELSE Min(prices)

\* price_level returns the queue or None: is_none tells which.  When the level
\* is not found the price is formatted with %f for the log, which is a
\* TypeError when the price is None.
price_level(bk, indicator, price) ==
  IF price \in DOMAIN bk[indicator]
  THEN [is_none |-> FALSE, od |-> bk[indicator][price], err |-> ""]
  ELSE [is_none |-> TRUE, od |-> << >>,
        err |-> IF price = None THEN "TypeError" ELSE ""]

\* '%08i' % n, as the tuple of its eight digits (n < 10^8).
Fmt08(n) == [i \in 1..8 |-> (n \div (10^(8 - i))) % 10]

\* record_trade with the two order numbers taking each other's place.
record_trade_swapped(trs, counter, trade_time, trade_price, trade_quantity, buy_order_number, sell_order_number) ==
  LET trade == [ trade_time |-> trade_time,
                 trade_price |-> trade_price,
                 trade_quantity |-> trade_quantity,
                 buy_order_number |-> sell_order_number,
                 sell_order_number |-> buy_order_number ]
      trade_number == Fmt08(counter)
  IN  [ trades |-> [n \in (DOMAIN trs) \cup {trade_number} |->
                       IF n = trade_number THEN trade ELSE trs[n]],
        trade_counter |-> counter + 1 ]

\* record_trade: the trade log and the counter after one more trade.
record_trade(trs, counter, trade_time, trade_price, trade_quantity, buy_order_number, sell_order_number) ==
  LET trade == [ trade_time |-> trade_time,
                 trade_price |-> trade_price,
                 trade_quantity |-> trade_quantity,
                 buy_order_number |-> buy_order_number,
                 sell_order_number |-> sell_order_number ]
      trade_number == Fmt08(counter)
  IN  [ trades |-> [n \in (DOMAIN trs) \cup {trade_number} |->
                       IF n = trade_number THEN trade ELSE trs[n]],
        trade_counter |-> counter + 1 ]

----------------------------------------------------------------------------
\* add(), up to the first test of its while loop.  The result says where
\* control is afterwards: "idle" (add returned), "while" (at the loop test)
\* or "error" (an exception left add).

Opposite(indicator) == IF indicator = BUY THEN ASK ELSE BID

best_opposite_price(bk, indicator) ==
  IF indicator = BUY THEN best_ask_price(bk) ELSE best_bid_price(bk)

\* The marketability test with strict comparisons.
marketable_strict(bk, order) ==
  \/ /\ order.buy_sell_indicator = BUY
     /\ best_ask_price(bk) # None
     /\ order.limit_price > best_ask_price(bk)
  \/ /\ order.buy_sell_indicator = SELL
     /\ best_bid_price(bk) # None
     /\ order.limit_price < best_bid_price(bk)

\* Lines 432-439: the marketability test of a limit order.
marketable(bk, order) ==
  \/ /\ order.buy_sell_indicator = BUY
     /\ best_ask_price(bk) # None
     /\ order.limit_price >= best_ask_price(bk)
  \/ /\ order.buy_sell_indicator = SELL
     /\ best_bid_price(bk) # None
     /\ order.limit_price <= best_bid_price(bk)

\* A limit order that is not marketable put on the bid side whatever its side.
rest_order_on_bid(bk, order) ==
  LET price == order.limit_price
      bk1 == IF price_level(bk, BID, price).is_none
             THEN create_level(bk, BID, price) ELSE bk
  IN  [bk1 EXCEPT ![BID] =
         LevelSet(@, price, OdSet(bk1[BID][price], order.order_number, Stored(order)))]

\* Lines 443-453: a limit order that is not marketable goes last in the queue
\* of its own side and price.
rest_order(bk, order) ==
  LET indicator == order.buy_sell_indicator
      price == order.limit_price
      bk1 == IF price_level(bk, indicator, price).is_none
             THEN create_level(bk, indicator, price) ELSE bk
  IN  [bk1 EXCEPT ![indicator] =
         LevelSet(@, price, OdSet(bk1[indicator][price], order.order_number, Stored(order)))]

\* add() sending every limit order to the matching loop.
add_enter_never_rests(bk, order) ==
  IF order.mkt_flag \in {"Y", "N"} THEN [book |-> bk, pc |-> "while", err |-> ""]
  ELSE [book |-> bk, pc |-> "error", err |-> "RuntimeError"]

add_enter(bk, order) ==
  IF order.mkt_flag = "Y" THEN [book |-> bk, pc |-> "while", err |-> ""]
  ELSE IF order.mkt_flag = "N" THEN
    IF best_opposite_price(bk, order.buy_sell_indicator) = EmptyLevel
    THEN [book |-> bk, pc |-> "error", err |-> "RuntimeError"]
    ELSE IF marketable(bk, order) THEN [book |-> bk, pc |-> "while", err |-> ""]
    ELSE [book |-> rest_order(bk, order), pc |-> "idle", err |-> ""]
  ELSE [book |-> bk, pc |-> "error", err |-> "RuntimeError"]

\* cancel() without the handler of the failed lookup of the order number.
cancel_missing_raises(bk, order) ==
  LET lvl == price_level(bk, order.buy_sell_indicator, order.limit_price)
  IN  IF order.mkt_flag = "Y" THEN [book |-> bk, pc |-> "error", err |-> "ValueError"]
      ELSE IF lvl.is_none THEN [book |-> bk, pc |-> "idle", err |-> ""]
      ELSE IF ~OdHas(lvl.od, order.order_number)
      THEN [book |-> bk, pc |-> "error", err |-> "KeyError"]
      ELSE [book |-> delete_order(bk, order.buy_sell_indicator, order.limit_price,
                                  order.order_number),
            pc |-> "idle", err |-> ""]

\* cancel()
cancel(bk, order) ==
  LET indicator == order.buy_sell_indicator
      price == order.limit_price
      order_number == order.order_number
      lvl == price_level(bk, indicator, price)
  IN  IF order.mkt_flag = "Y" THEN [book |-> bk, pc |-> "error", err |-> "ValueError"]
      ELSE IF ~lvl.is_none /\ OdHas(lvl.od, order_number)
      THEN [book |-> delete_order(bk, indicator, price, order_number),
            pc |-> "idle", err |-> ""]
      ELSE [book |-> bk, pc |-> "idle", err |-> ""]

\* od[order_number] = new_order taking the order to the end of its queue.
replace_order_at_tail(bk, order) ==
  [bk EXCEPT ![order.buy_sell_indicator] =
     LevelSet(@, order.limit_price,
              Append(OdPop(bk[order.buy_sell_indicator][order.limit_price],
                           order.order_number), Stored(order)))]

\* od[order_number] = new_order in modify(): the order is replaced in place.
replace_order(bk, order) ==
  [bk EXCEPT ![order.buy_sell_indicator] =
     LevelSet(@, order.limit_price,
              OdSet(bk[order.buy_sell_indicator][order.limit_price],
                    order.order_number, Stored(order)))]

\* modify() without the test of mkt_flag.
modify_market_ignored(bk, order) ==
  LET lvl == price_level(bk, order.buy_sell_indicator, order.limit_price)
  IN  IF ~lvl.is_none /\ OdHas(lvl.od, order.order_number)
      THEN [book |-> replace_order(bk, order), pc |-> "idle", err |-> ""]
      ELSE [book |-> bk, pc |-> "idle", err |-> ""]

\* modify()
modify(bk, order) ==
  LET lvl == price_level(bk, order.buy_sell_indicator, order.limit_price)
      order_number == order.order_number
      old_order == OdGet(lvl.od, order_number)
      resubmit == add_enter(delete_order(bk, old_order.buy_sell_indicator,
                                         old_order.limit_price, order_number), order)
      noop == [book |-> bk, pc |-> "idle", err |-> ""]
  IN  IF order.mkt_flag = "Y" THEN [book |-> bk, pc |-> "error", err |-> "ValueError"]
      ELSE IF lvl.is_none \/ ~OdHas(lvl.od, order_number) THEN noop
      ELSE IF order.limit_price # old_order.limit_price THEN resubmit
      ELSE IF order.volume_original < old_order.volume_original
           THEN [noop EXCEPT !.book = replace_order(bk, order)]
      ELSE IF order.volume_disclosed < old_order.volume_disclosed
           THEN [noop EXCEPT !.book = replace_order(bk, order)]
      ELSE IF order.volume_original > old_order.volume_original THEN resubmit
      ELSE IF order.volume_disclosed > old_order.volume_disclosed THEN resubmit
      ELSE noop

----------------------------------------------------------------------------
Init ==
  /\ book = EmptyBook
  /\ trade_counter = 1
  /\ trades = EmptyMap
  /\ day = None
  /\ pc = "idle"
  /\ err = ""
  /\ new_order = NoOrder
  /\ volume_original = 0
  /\ best_price = None
  /\ keys = << >>
  /\ trans_date = NoDate
  /\ prev_date = NoDate
  /\ nevents = 0
  /\ nadds = 0
  /\ at_row = NoRow

\* The dates the next row can carry: rows come in chronological order.
NextDates == {d \in Dates : trans_date = NoDate \/ DateLE(trans_date, d)}

\* process(), lines 118-129: the next row is taken and its date parsed; the
\* book is reset when the day of the month of the row differs from day; day
\* is set from the first row of the call only.
DayCheckWithin(date, rows) ==
  /\ pc = "idle"
  /\ nevents < rows
  /\ pc' = "dispatch"
  /\ trans_date' = date
  /\ prev_date' = trans_date
  /\ nevents' = nevents + 1
  /\ at_row' = [book |-> book, trade_counter |-> trade_counter]
  /\ IF day = None
     THEN /\ day' = TransDay(date)
          /\ UNCHANGED << book, trade_counter >>
     ELSE IF day # TransDay(date)
     THEN /\ book' = clear_book(book)
          /\ trade_counter' = 1
          /\ day' = day
     ELSE UNCHANGED << book, trade_counter, day >>
  /\ UNCHANGED << trades, err, locals, nadds >>

DayCheck(date) == DayCheckWithin(date, MaxEvents)

\* The rows that can be the one just taken.  trans_time is the row's place in
\* the stream, and the disclosed volume is at most the original one.  The
\* fields a handler never reads (the volumes of a cancel, everything of a
\* market cancel, the price and the disclosed volume of a market order,
\* everything of a row with an unknown activity_type) are fixed.
Row(activity_type, order_number, indicator, volume_disclosed, volume, price, mkt_flag) ==
  [ order_number |-> order_number,
    trans_date |-> trans_date,
    trans_time |-> nevents,
    buy_sell_indicator |-> indicator,
    activity_type |-> activity_type,
    volume_disclosed |-> volume_disclosed,
    volume_original |-> volume,
    limit_price |-> price,
    mkt_flag |-> mkt_flag ]

LimitRows(activity_type, numbers) ==
  { Row(activity_type, n, i, vd, vo, p, "N") :
      n \in numbers, i \in {BUY, SELL},
      vd \in Volumes, vo \in IF activity_type = 4 THEN ModifyVolumes ELSE Volumes,
      p \in Prices }

MarketRows(activity_type, numbers) ==
  { Row(activity_type, n, i, 1, vo, 1, "Y") :
      n \in numbers, i \in {BUY, SELL}, vo \in Volumes }

\* activity_type 1: the row carries the next new order number.
AddRows ==
  IF nadds < MaxOrderNumber
  THEN { r \in LimitRows(1, {nadds + 1}) : r.volume_disclosed <= r.volume_original }
       \cup MarketRows(1, {nadds + 1})
  ELSE {}

CancelRows ==
  { Row(3, n, i, 1, 1, p, "N") : n \in OrderNumbers, i \in {BUY, SELL}, p \in Prices }
  \cup { Row(3, 1, BUY, 1, 1, 1, "Y") }

\* A market order listed as a modify carries the number of an earlier order.
ModifyRows ==
  { r \in LimitRows(4, OrderNumbers) : r.volume_disclosed <= r.volume_original }
  \cup MarketRows(4, 1..nadds)

\* activity_type 2 stands for every code other than 1, 3 and 4.
UnknownRows == { Row(2, 1, BUY, 1, 1, 1, "N") }

\* The state after the row's handler was entered with result f.
Dispatch(order, f) ==
  /\ pc = "dispatch"
  /\ book' = f.book
  /\ pc' = f.pc
  /\ err' = f.err
  /\ new_order' = IF f.pc = "idle" THEN NoOrder ELSE order
  /\ volume_original' = IF f.pc = "while" THEN order.volume_original ELSE 0
  /\ best_price' = None
  /\ keys' = << >>
  /\ prev_date' = NoDate
  /\ at_row' = NoRow
  /\ UNCHANGED << trade_counter, trades, day, trans_date, nevents >>

\* process(), lines 131-143: the row is dispatched on its activity_type.
ProcessAdd(order) ==
  /\ order.activity_type = 1
  /\ nadds' = nadds + 1
  /\ Dispatch(order, add_enter(book, order))

ProcessCancel(order) ==
  /\ order.activity_type = 3
  /\ nadds' = nadds
  /\ Dispatch(order, cancel(book, order))

\* Every modify row handed to modify(), market orders too.
ProcessModify_no_quirk(order) ==
  /\ order.activity_type = 4
  /\ nadds' = nadds
  /\ Dispatch(order, modify(book, order))

\* A market order listed as a modify is added.
ProcessModify(order) ==
  /\ order.activity_type = 4
  /\ nadds' = nadds
  /\ Dispatch(order, IF order.mkt_flag = "Y"
                     THEN add_enter(book, order)
                     ELSE modify(book, order))

\* Any other activity_type is a ValueError.
ProcessUnknown(order) ==
  /\ order.activity_type \notin {1, 3, 4}
  /\ nadds' = nadds
  /\ Dispatch(order, [book |-> book, pc |-> "error", err |-> "ValueError"])

\* process() returns at the end of its DataFrame and is called with the next
\* rows of the stream: the call starts with day = None.
ProcessReturn ==
  /\ pc = "idle"
  /\ day # None
  /\ nevents < MaxEvents
  /\ day' = None
  /\ UNCHANGED << engine, pc, err, locals, stream >>

\* modify() called by the user of the class, outside process(), with a market
\* order: process() itself hands such a row to add().  Only mkt_flag is read.
ModifyCallRows == { Row(4, 1, BUY, 1, 1, 1, "Y") }

ModifyCall(order) ==
  /\ pc = "idle"
  /\ day = None
  /\ LET f == modify(book, order)
     IN  /\ book' = f.book
         /\ pc' = f.pc
         /\ err' = f.err
         /\ new_order' = IF f.pc = "idle" THEN NoOrder ELSE order
         /\ volume_original' = IF f.pc = "while" THEN order.volume_original ELSE 0
  /\ UNCHANGED << trade_counter, trades, day, best_price, keys, stream >>

\* add(): the test of the while loop and the statements up to the for loop.
\* With no order left on the opposite side best_price is None and the call of
\* price_level raises; od.keys() of a level that does not exist (od is None)
\* would be an AttributeError.
WhileStep ==
  /\ pc = "while"
  /\ LET indicator == new_order.buy_sell_indicator
         price == best_opposite_price(book, indicator)
         lvl == price_level(book, Opposite(indicator), price)
     IN  IF volume_original > 0
         THEN IF price = EmptyLevel
              THEN /\ pc' = "error" /\ err' = "RuntimeError"
                   /\ UNCHANGED << locals >>
              ELSE IF lvl.is_none
              THEN /\ pc' = "error"
                   /\ err' = IF lvl.err # "" THEN lvl.err ELSE "AttributeError"
                   /\ best_price' = price
                   /\ UNCHANGED << new_order, volume_original, keys >>
              ELSE /\ pc' = "for" /\ err' = err
                   /\ best_price' = price
                   /\ keys' = OdKeys(lvl.od)
                   /\ UNCHANGED << new_order, volume_original >>
         ELSE /\ pc' = "idle" /\ err' = err
              /\ new_order' = NoOrder /\ volume_original' = 0
              /\ best_price' = None /\ keys' = << >>
  /\ UNCHANGED << engine, day, stream >>

\* The quantity add() passes to record_trade in the three branches of the for
\* loop (lines 382-418 and 488-524).
traded_quantity(curr_volume, volume) ==
  IF curr_volume = volume THEN volume
  ELSE IF curr_volume > volume THEN curr_volume - volume
  ELSE curr_volume

\* The decrement taking all of the resting order's volume.
decrement_order_to_zero(bk, indicator, price, order_number, volume) ==
  LET od == bk[indicator][price]
      i == OdIndex(od, order_number)
  IN  [bk EXCEPT ![indicator][price][i].volume_original = 0]

\* curr_order['volume_original'] -= volume_original
decrement_order(bk, indicator, price, order_number, volume) ==
  LET od == bk[indicator][price]
      i == OdIndex(od, order_number)
  IN  [bk EXCEPT ![indicator][price][i].volume_original = @ - volume]

\* add(): one pass of the for loop over the keys of the queue at best_price.
ForStep ==
  /\ pc = "for"
  /\ IF keys = << >>
     THEN /\ pc' = "while"
          /\ UNCHANGED << engine, locals >>
     ELSE LET indicator == new_order.buy_sell_indicator
              order_number == Head(keys)
              curr_order == OdGet(book[Opposite(indicator)][best_price], order_number)
              buy_order == IF curr_order.buy_sell_indicator = BUY THEN curr_order ELSE new_order
              sell_order == IF curr_order.buy_sell_indicator = SELL THEN curr_order ELSE new_order
              quantity == traded_quantity(curr_order.volume_original, volume_original)
              rec == record_trade(trades, trade_counter, new_order.trans_time,
                                  best_price, quantity,
                                  buy_order.order_number, sell_order.order_number)
          IN  /\ trades' = rec.trades
              /\ trade_counter' = rec.trade_counter
              /\ IF curr_order.volume_original = volume_original
                 THEN /\ book' = delete_order(book, curr_order.buy_sell_indicator,
                                              best_price, order_number)
                      /\ volume_original' = 0
                      /\ pc' = "while" /\ keys' = << >>
                 ELSE IF curr_order.volume_original > volume_original
                 THEN /\ book' = decrement_order(book, curr_order.buy_sell_indicator,
                                                 best_price, order_number, volume_original)
                      /\ volume_original' = 0
                      /\ pc' = "while" /\ keys' = << >>
                 ELSE /\ book' = delete_order(book, curr_order.buy_sell_indicator,
                                              best_price, order_number)
                      /\ volume_original' = volume_original - curr_order.volume_original
                      /\ pc' = "for" /\ keys' = Tail(keys)
              /\ UNCHANGED << new_order, best_price >>
  /\ UNCHANGED << err, day, stream >>

Next ==
  \/ \E date \in NextDates : DayCheck(date)
  \/ \E order \in AddRows : ProcessAdd(order)
  \/ \E order \in CancelRows : ProcessCancel(order)
  \/ \E order \in ModifyRows : ProcessModify(order)
  \/ \E order \in UnknownRows : ProcessUnknown(order)
  \/ ProcessReturn
  \/ \E order \in ModifyCallRows : ModifyCall(order)
  \/ WhileStep
  \/ ForStep

Spec == Init /\ [][Next]_vars

\* The interpreter goes on: the handler of a row that was taken is called, and
\* the loops of add() take their next step.
Handlers ==
  \/ \E order \in AddRows : ProcessAdd(order)
  \/ \E order \in CancelRows : ProcessCancel(order)
  \/ \E order \in ModifyRows : ProcessModify(order)
  \/ \E order \in UnknownRows : ProcessUnknown(order)

FairSpec ==
  Spec /\ WF_vars(Handlers) /\ WF_vars(WhileStep) /\ WF_vars(ForStep)

\* Longer runs of one process() call over fewer kinds of rows: new orders and
\* market orders listed as modifies.
LongNext ==
  \/ \E date \in NextDates : DayCheckWithin(date, MaxRows)
  \/ \E order \in AddRows : ProcessAdd(order)
  \/ \E order \in MarketRows(4, 1..nadds) : ProcessModify(order)
  \/ WhileStep
  \/ ForStep

LongSpec == Init /\ [][LongNext]_vars

\* create_level() called by the user of the class, outside process().
CreateLevelCall(indicator, price) ==
  /\ pc = "idle"
  /\ day = None
  /\ book' = create_level(book, indicator, price)
  /\ UNCHANGED << trade_counter, trades, day, pc, err, locals, stream >>

\* The rows of process() together with such calls.
CallsNext ==
  \/ Next
  \/ \E indicator \in {BID, ASK} : \E price \in Prices :
       CreateLevelCall(indicator, price)

CallsSpec == Init /\ [][CallsNext]_vars

----------------------------------------------------------------------------
\* Properties.

Sides == {BID, ASK}

NoEmptyLevel(bk) == \A d \in Sides : \A p \in DOMAIN bk[d] : bk[d][p] # << >>

\* The best price of the side opposite to indicator, read off the book.
BestOpposite(bk, indicator) ==
  IF indicator = BUY THEN Min(DOMAIN bk[ASK]) ELSE Max(DOMAIN bk[BID])

OppositeEmpty(bk, indicator) == DOMAIN bk[Opposite(indicator)] = {}

\* A limit price that the opposite best price satisfies.
Satisfies(order, price) ==
  IF order.buy_sell_indicator = BUY
  THEN price <= order.limit_price ELSE price >= order.limit_price

\* The step records a trade: a pass of the for loop of add().
TradeStep == pc = "for" /\ keys # << >> /\ trade_counter' = trade_counter + 1
\* The trade the step records.
StepTrade == trades'[Fmt08(trade_counter)]
\* The resting order the step matches, and the number under which the trade
\* names the resting side.
StepResting == OdGet(book[Opposite(new_order.buy_sell_indicator)][best_price], Head(keys))
StepRestingNumber ==
  IF new_order.buy_sell_indicator = BUY
  THEN StepTrade.sell_order_number ELSE StepTrade.buy_order_number

\* C1: between events, when both sides of the book hold orders, the highest
\* bid price is strictly below the lowest ask price.
C1_NeverLockedOrCrossed ==
  pc = "idle" =>
    (DOMAIN book[BID] # {} /\ DOMAIN book[ASK] # {}
       => Max(DOMAIN book[BID]) < Min(DOMAIN book[ASK]))

\* C1 witness: after a trade, both sides hold orders between events.
C1_Witness ==
  /\ pc = "idle"
  /\ trade_counter > 1
  /\ DOMAIN book[BID] # {}
  /\ DOMAIN book[ASK] # {}

\* C2: every recorded trade has the quantity min(R, O.volume_original), R the
\* volume left of the incoming order and O the resting order matched; when O
\* is larger than R the quantity is R, O's volume goes down by R and the
\* incoming order is satisfied.
C2_TradeQuantityIsMin ==
  [][TradeStep =>
       LET R == volume_original
           O == StepResting
           side == O.buy_sell_indicator
       IN  /\ StepTrade.trade_quantity = Min({R, O.volume_original})
           /\ O.volume_original > R =>
                /\ StepTrade.trade_quantity = R
                /\ OdGet(book'[side][best_price], O.order_number).volume_original
                     = O.volume_original - R
                /\ volume_original' = 0]_vars

\* C3: a trade of an incoming limit order is never at a price beyond its limit
\* (above it for a BUY, below it for a SELL).
C3_LimitPriceRespected ==
  [][(TradeStep /\ new_order.mkt_flag = "N")
       => Satisfies(new_order, StepTrade.trade_price)]_vars

\* C4: every trade is made at the best price of the opposite side with the
\* head of the queue at that price, and a resting order that is filled in part
\* stays the head of its queue.
C4_TradesHeadOfBestLevel ==
  [][TradeStep =>
       LET opp == Opposite(new_order.buy_sell_indicator)
           best == BestOpposite(book, new_order.buy_sell_indicator)
           head == Head(book[opp][best])
       IN  /\ StepTrade.trade_price = best
           /\ StepRestingNumber = head.order_number
           /\ head.volume_original > volume_original =>
                /\ best \in DOMAIN book'[opp]
                /\ OdKeys(book'[opp][best]) = OdKeys(book[opp][best])]_vars

\* C4 witness: order 1 was matched in part before order 2, which arrived later
\* at the same price, and is still the head of the queue.
C4_Witness ==
  /\ pc = "idle"
  /\ trade_counter = 2
  /\ 1 \in DOMAIN book[ASK]
  /\ OdKeys(book[ASK][1]) = << 1, 2 >>
  /\ book[ASK][1][1].volume_original = 2
  /\ trades[Fmt08(1)].sell_order_number = 1

\* C5: when matching of an incoming limit order stops with part of it filled
\* (the opposite side is exhausted or its best price no longer satisfies the
\* limit), add returns without an error and what is left rests last in the
\* queue of the order's own side and limit price.
C5_ResidueRests ==
  [][(/\ pc = "while"
      /\ new_order.mkt_flag = "N"
      /\ 0 < volume_original
      /\ volume_original < new_order.volume_original
      /\ \/ OppositeEmpty(book, new_order.buy_sell_indicator)
         \/ ~Satisfies(new_order, BestOpposite(book, new_order.buy_sell_indicator)))
       => /\ pc' = "idle"
          /\ err' = ""
          /\ new_order.limit_price \in DOMAIN book'[new_order.buy_sell_indicator]
          /\ LET od == book'[new_order.buy_sell_indicator][new_order.limit_price]
             IN  /\ od # << >>
                 /\ od[Len(od)].order_number = new_order.order_number
                 /\ od[Len(od)].volume_original = volume_original]_vars

\* C6: an ADD market order that finds the opposite side empty records no
\* trade, leaves the book as it is and raises no error; the next event is
\* taken afterwards.
C6_MarketIntoEmptySide ==
  [][(/\ pc = "while"
      /\ new_order.mkt_flag = "Y"
      /\ new_order.activity_type = 1
      /\ volume_original = new_order.volume_original
      /\ OppositeEmpty(book, new_order.buy_sell_indicator))
       => /\ pc' = "idle"
          /\ err' = ""
          /\ UNCHANGED << book, trades, trade_counter >>]_vars

\* C7: a market order that is larger than all that rests on the opposite side
\* ends without an error once it has emptied that side; what is left of it
\* does not rest.
C7_MarketExceedsBook ==
  [][(/\ pc = "while"
      /\ new_order.mkt_flag = "Y"
      /\ 0 < volume_original
      /\ volume_original < new_order.volume_original
      /\ OppositeEmpty(book, new_order.buy_sell_indicator))
       => /\ pc' = "idle"
          /\ err' = ""
          /\ book' = book]_vars

\* C8: between events no side of the book has a price level with an empty
\* queue, and best_bid_price/best_ask_price never raise 'empty price level
\* detected'.
C8_NoEmptyLevel ==
  /\ pc = "idle" => NoEmptyLevel(book)
  /\ err # "RuntimeError"

\* C8 witness: the second event matched the only resting order in full, and
\* its level is gone with it.
C8_Witness ==
  /\ pc = "idle"
  /\ nevents = 2
  /\ trade_counter = 2
  /\ book = EmptyBook

\* C9: a row with the same trans_date as the row before it does not clear the
\* book: the orders resting after the first event of a day are still there
\* when the later events of that day are processed.
C9_ClearedOnlyOnNewDay ==
  [][(pc = "idle" /\ pc' = "dispatch" /\ trans_date' = trans_date)
       => (book' = book /\ trade_counter' = trade_counter)]_vars

\* C10: when a row's trans_date differs from that of the row before it, the
\* book is empty and trade_counter is 1 when the row is dispatched.
C10_EmptyAtNewDate ==
  (pc = "dispatch" /\ prev_date # NoDate /\ trans_date # prev_date)
    => (book = EmptyBook /\ trade_counter = 1)

\* Order number n rests on side d at price p.
Rests(bk, d, p, n) == p \in DOMAIN bk[d] /\ OdHas(bk[d][p], n)

\* C11: every trade is stored under the current counter value and the counter
\* goes up by one; the counter changes otherwise only by going back to 1 when
\* a row of another trans_date is taken; and a row of another trans_date that
\* is about to trade finds the counter at 1, so that the numbers of a day are
\* 1, 2, 3, ...
C11_TradeNumbersConsecutive ==
  [][/\ (pc = "for" /\ keys # << >>)
          => /\ Fmt08(trade_counter) \in DOMAIN trades'
             /\ trade_counter' = trade_counter + 1
     /\ trade_counter' # trade_counter
          => \/ trade_counter' = trade_counter + 1
             \/ /\ trade_counter' = 1
                /\ pc = "idle" /\ pc' = "dispatch"
                /\ trans_date' # trans_date
     /\ (/\ pc = "dispatch" /\ pc' = "while"
         /\ prev_date # NoDate /\ trans_date # prev_date
         /\ ~OppositeEmpty(book', new_order'.buy_sell_indicator))
          => trade_counter = 1]_vars

\* C12: a non-market modify of an order that rests on the side of the row at
\* a price other than the row's limit_price takes the order out of its old
\* level; the order then matches when the new price reaches the opposite best
\* price and rests last in the queue at the new price otherwise.
C12_ModifyPriceReenters ==
  [][\A order \in IF pc = "dispatch" THEN ModifyRows ELSE {} : \A p \in Prices :
       (/\ order.mkt_flag = "N"
        /\ p # order.limit_price
        /\ Rests(book, order.buy_sell_indicator, p, order.order_number)
        /\ ProcessModify(order))
         => LET d == order.buy_sell_indicator
                n == order.order_number
                removed == delete_order(book, d, p, n)
            IN  /\ ~Rests(book', d, p, n)
                /\ IF marketable(removed, order)
                   THEN pc' = "while"
                   ELSE /\ pc' = "idle"
                        /\ Rests(book', d, order.limit_price, n)
                        /\ LET od == book'[d][order.limit_price]
                           IN  od[Len(od)].order_number = n]_vars

\* C13: a non-market modify that raises volume_original of an order resting at
\* the row's side and price, whatever volume_disclosed the row carries, moves
\* the order to the tail of its queue: the other orders keep their order and
\* are all ahead of it, and the order carries the volumes of the row.
C13_VolumeIncreaseGoesLast ==
  [][\A order \in IF pc = "dispatch" THEN ModifyRows ELSE {} :
       LET d == order.buy_sell_indicator
           p == order.limit_price
           n == order.order_number
       IN  (/\ order.mkt_flag = "N"
            /\ Rests(book, d, p, n)
            /\ order.volume_original > OdGet(book[d][p], n).volume_original
            /\ ProcessModify(order))
             => /\ pc' = "idle"
                /\ Rests(book', d, p, n)
                /\ OdKeys(book'[d][p]) = Append(OdKeys(OdPop(book[d][p], n)), n)
                /\ OdGet(book'[d][p], n).volume_original = order.volume_original
                /\ OdGet(book'[d][p], n).volume_disclosed = order.volume_disclosed]_vars

\* C14: a non-market modify that lowers volume_original of an order resting at
\* the row's side and price, or that lowers its volume_disclosed and leaves
\* volume_original as it is, returns without an error and changes nothing but
\* the two volumes of that order, which become those of the row: the queue
\* keeps its order, and the other orders, the levels, the trade log and the
\* trade counter are unchanged.
C14_VolumeDecreaseInPlace ==
  [][\A order \in IF pc = "dispatch" THEN ModifyRows ELSE {} :
       LET d == order.buy_sell_indicator
           p == order.limit_price
           n == order.order_number
       IN  (/\ order.mkt_flag = "N"
            /\ Rests(book, d, p, n)
            /\ LET old_order == OdGet(book[d][p], n)
               IN  \/ order.volume_original < old_order.volume_original
                   \/ /\ order.volume_original = old_order.volume_original
                      /\ order.volume_disclosed < old_order.volume_disclosed
            /\ ProcessModify(order))
             => /\ pc' = "idle"
                /\ err' = ""
                /\ UNCHANGED << trades, trade_counter >>
                /\ OdKeys(book'[d][p]) = OdKeys(book[d][p])
                /\ book' = [book EXCEPT
                              ![d][p][OdIndex(book[d][p], n)].volume_original =
                                 order.volume_original,
                              ![d][p][OdIndex(book[d][p], n)].volume_disclosed =
                                 order.volume_disclosed]]_vars

\* C14 witness: order 1 was filled in part by order 2, the second row (3 - 1
\* = 2 left), and the third row, a modify, lowered what is left of it to 1
\* where it rests.
C14_Witness ==
  /\ pc = "idle"
  /\ nevents = 3
  /\ nadds = 2
  /\ trade_counter = 2
  /\ trades[Fmt08(1)].sell_order_number = 1
  /\ trades[Fmt08(1)].trade_time = 2
  /\ Rests(book, ASK, 1, 1)
  /\ OdGet(book[ASK][1], 1).volume_original = 1

\* Order number n rests somewhere in the book.
RestsAnywhere(bk, n) == \E d \in Sides : \E p \in DOMAIN bk[d] : OdHas(bk[d][p], n)

\* C15: a non-market cancel that names the order number of a resting order
\* removes that order, whatever side and limit_price the row reports, and
\* leaves no empty level behind.
C15_CancelByOrderNumber ==
  [][\A order \in IF pc = "dispatch" THEN CancelRows ELSE {} :
       (/\ order.mkt_flag = "N"
        /\ RestsAnywhere(book, order.order_number)
        /\ ProcessCancel(order))
         => /\ pc' = "idle"
            /\ ~RestsAnywhere(book', order.order_number)
            /\ NoEmptyLevel(book')]_vars

\* C16: a non-market cancel or modify that names an order number that rests
\* nowhere in the book returns without an error and leaves the book, the trade
\* log and the trade counter as they are.
C16_MissingOrderIsNoOp ==
  [][/\ \A order \in IF pc = "dispatch" THEN CancelRows ELSE {} :
          (/\ order.mkt_flag = "N"
           /\ ~RestsAnywhere(book, order.order_number)
           /\ ProcessCancel(order))
            => (pc' = "idle" /\ err' = "" /\ UNCHANGED engine)
     /\ \A order \in IF pc = "dispatch" THEN ModifyRows ELSE {} :
          (/\ order.mkt_flag = "N"
           /\ ~RestsAnywhere(book, order.order_number)
           /\ ProcessModify(order))
            => (pc' = "idle" /\ err' = "" /\ UNCHANGED engine)]_vars

\* C16 witness: the second row matched the first order in full, and the third
\* row, a cancel or a modify, found an empty book and returned.
C16_Witness ==
  /\ pc = "idle"
  /\ err = ""
  /\ nevents = 3
  /\ nadds = 2
  /\ trade_counter = 2
  /\ trades[Fmt08(1)].trade_time = 2
  /\ book = EmptyBook

\* C17: a row whose activity_type is not 1, 3 or 4 ends process() with an
\* error, and the book, the trade counter and the trade log are then what
\* they were when the row was taken.
C17_UnknownActivityRejected ==
  [][\A order \in IF pc = "dispatch" THEN UnknownRows ELSE {} :
       ProcessUnknown(order)
         => /\ pc' = "error"
            /\ err' = "ValueError"
            /\ book' = at_row.book
            /\ trade_counter' = at_row.trade_counter
            /\ trades' = trades]_vars

C19_TradeFields ==
  [][TradeStep =>
       LET t == StepTrade
           d == new_order.buy_sell_indicator
           opp == Opposite(d)
           active == IF d = BUY THEN t.buy_order_number ELSE t.sell_order_number
           passive == IF d = BUY THEN t.sell_order_number ELSE t.buy_order_number
       IN  /\ active = new_order.order_number
           /\ Rests(book, opp, t.trade_price, passive)
           /\ OdGet(book[opp][t.trade_price], passive).buy_sell_indicator = opp
           /\ OdGet(book[opp][t.trade_price], passive).limit_price = t.trade_price
           /\ t.trade_time = new_order.trans_time]_vars

\* C19 witness: a BUY limit order with limit price 2 has traded at price 1,
\* the price of the resting SELL order.
C19_Witness ==
  /\ pc = "while"
  /\ new_order.mkt_flag = "N"
  /\ new_order.buy_sell_indicator = BUY
  /\ new_order.limit_price = 2
  /\ trade_counter = 2
  /\ trades[Fmt08(1)].trade_price = 1
  /\ trades[Fmt08(1)].buy_order_number = new_order.order_number
  /\ trades[Fmt08(1)].trade_time = new_order.trans_time

\* The volume of a queue, of the levels ps of one side, and of the trades ks.
RECURSIVE QueueVolume(_)
QueueVolume(od) ==
  IF od = << >> THEN 0 ELSE Head(od).volume_original + QueueVolume(Tail(od))

RECURSIVE LevelsVolume(_, _)
LevelsVolume(levels, ps) ==
  IF ps = {} THEN 0
  ELSE LET p == CHOOSE x \in ps : TRUE
       IN  QueueVolume(levels[p]) + LevelsVolume(levels, ps \ {p})

RECURSIVE TradesQuantity(_, _)
TradesQuantity(trs, ks) ==
  IF ks = {} THEN 0
  ELSE LET k == CHOOSE x \in ks : TRUE
       IN  trs[k].trade_quantity + TradesQuantity(trs, ks \ {k})

\* What the opposite side holds for the order: all of it for a market order,
\* the levels at prices that satisfy the limit for a limit order.
Available(bk, order) ==
  LET levels == bk[Opposite(order.buy_sell_indicator)]
  IN  LevelsVolume(levels, { p \in DOMAIN levels :
                               order.mkt_flag = "Y" \/ Satisfies(order, p) })

\* The sum of the quantities of the trades recorded for the order.
RowQuantity(trs, order) ==
  TradesQuantity(trs, { k \in DOMAIN trs : trs[k].trade_time = order.trans_time })

\* C20: the quantity of every trade is the volume the trade takes from the
\* opposite side and from what is left of the incoming order, so that the sum
\* of the quantities recorded for the order is its volume minus what is left
\* of it; and when matching has ended that sum is the smaller of the order's
\* volume and the volume that was available to it.
C20_QuantitiesAddUp ==
  [][/\ TradeStep =>
          LET levels == book[Opposite(new_order.buy_sell_indicator)]
              levels_after == book'[Opposite(new_order.buy_sell_indicator)]
          IN  /\ StepTrade.trade_quantity =
                   LevelsVolume(levels, DOMAIN levels)
                     - LevelsVolume(levels_after, DOMAIN levels_after)
              /\ StepTrade.trade_quantity = volume_original - volume_original'
              /\ RowQuantity(trades', new_order) =
                   new_order.volume_original - volume_original'
     /\ (pc = "while" /\ (volume_original = 0 \/ Available(book, new_order) = 0))
          => RowQuantity(trades, new_order) =
               Min({ new_order.volume_original,
                     RowQuantity(trades, new_order) + Available(book, new_order) })]_vars

\* The places (side, price, position in the queue) where order number n is.
Places(bk, n) ==
  { << d, p, i >> \in Sides \X Prices \X (1..MaxOrderNumber) :
      /\ p \in DOMAIN bk[d]
      /\ i \in 1..Len(bk[d][p])
      /\ bk[d][p][i].order_number = n }

AfterDayCheck(dy, date, bk, counter) ==
  IF dy # None /\ dy # TransDay(date)
  THEN << clear_book(bk), 1 >>
  ELSE << bk, counter >>

\* C22: ending the process() call at some point of the stream and handing the
\* rest to a new call makes no difference: the row that comes next, whatever
\* its date, is dispatched on the same book with the same trade counter as it
\* would have been in the call that went on.
C22_ChunkingMakesNoDifference ==
  [][(pc = "idle" /\ pc' = "idle" /\ day # None /\ day' = None)
       => \A date \in NextDates :
            AfterDayCheck(day', date, book', trade_counter')
              = AfterDayCheck(day, date, book, trade_counter)]_vars

\* C23: the reset of the book at a day change empties both sides and puts the
\* trade counter back to 1 without touching the trade log, and a trade that
\* is in the log stays in it as it is, whatever is recorded later.
C23_TradesAreKept ==
  [][/\ (pc = "idle" /\ pc' = "dispatch" /\ book' # book)
          => (book' = EmptyBook /\ trade_counter' = 1 /\ trades' = trades)
     /\ \A k \in DOMAIN trades :
          k \in DOMAIN trades' /\ trades'[k] = trades[k]]_vars

\* C24: create_level for a side and price that have a level fails with an
\* error and leaves the queue of that level as it is; for a side and price
\* without a level it makes a level with an empty queue.
C24_CreateLevelChecksExisting ==
  [][\A d \in Sides : \A p \in Prices :
       (pc = "idle" /\ day = None /\ CreateLevelCall(d, p))
         => IF p \in DOMAIN book[d]
            THEN pc' = "error" /\ book'[d][p] = book[d][p]
            ELSE p \in DOMAIN book'[d] /\ book'[d][p] = << >>]_vars

\* C25: a row with activity_type 4 and mkt_flag 'Y' is handled as the same
\* row with activity_type 1 is: add() is entered with it on the same book and
\* leaves the book, the position and the error that it leaves for the new
\* order, the order matched is the row itself, and modify(), which raises for
\* a market order, is not entered.
C25_MarketModifyIsAdd ==
  [][\A order \in IF pc = "dispatch" THEN MarketRows(4, 1..nadds) ELSE {} :
       ProcessModify(order)
         => LET as_add == [order EXCEPT !.activity_type = 1]
                f == add_enter(book, as_add)
            IN  /\ book' = f.book
                /\ pc' = f.pc
                /\ err' = f.err
                /\ new_order' = order
                /\ volume_original' = as_add.volume_original
                /\ UNCHANGED << trades, trade_counter >>
                /\ << pc', err' >> # << "error", "ValueError" >>]_vars

\* C25 witness: a market order listed as a modify has traded with a resting
\* order.
C25_Witness ==
  /\ pc = "while"
  /\ new_order.activity_type = 4
  /\ new_order.mkt_flag = "Y"
  /\ trade_counter = 2
  /\ trades[Fmt08(1)].trade_time = new_order.trans_time

\* The limit price of the order is strictly worse than the best price of the
\* opposite side, or that side is empty.
StrictlyWorse(bk, order) ==
  \/ OppositeEmpty(bk, order.buy_sell_indicator)
  \/ IF order.buy_sell_indicator = BUY
     THEN order.limit_price < BestOpposite(bk, BUY)
     ELSE order.limit_price > BestOpposite(bk, SELL)

\* C26: a limit ADD rests without a trade exactly when the opposite side is
\* empty or its limit price is strictly worse than the opposite best price.
\* It then goes with its full volume to the tail of the queue at its side and
\* limit price, in a new level if there was none, and nothing else changes.
\* Otherwise, also when its price equals the opposite best price, it does not
\* rest: it goes to the matching loop with an order to match.
C26_RestsIffNotMarketable ==
  [][\A order \in IF pc = "dispatch" THEN AddRows ELSE {} :
       (order.mkt_flag = "N" /\ ProcessAdd(order))
         => LET d == order.buy_sell_indicator
                p == order.limit_price
                od == IF p \in DOMAIN book[d] THEN book[d][p] ELSE << >>
            IN  IF StrictlyWorse(book, order)
                THEN /\ pc' = "idle"
                     /\ err' = ""
                     /\ book' = [book EXCEPT
                                   ![d] = LevelSet(@, p, Append(od, Stored(order)))]
                     /\ UNCHANGED << trades, trade_counter >>
                ELSE /\ pc' = "while"
                     /\ book' = book
                     /\ volume_original' = order.volume_original
                     /\ ~OppositeEmpty(book, d)]_vars

\* C26 witness: order 3, a BUY at 1 below the best ask, rests behind order 1
\* at the same price; nothing has traded.
C26_Witness ==
  /\ pc = "idle"
  /\ nevents = 3
  /\ nadds = 3
  /\ trade_counter = 1
  /\ Rests(book, BID, 1, 1)
  /\ OdKeys(book[BID][1]) = << 1, 3 >>
  /\ Rests(book, ASK, 2, 2)

\* The order numbers resting on side d.
OrdersOn(bk, d) ==
  { bk[d][p][i].order_number : << p, i >> \in
      { pi \in Prices \X (1..MaxOrderNumber) :
          pi[1] \in DOMAIN bk[d] /\ pi[2] \in 1..Len(bk[d][pi[1]]) } }

\* The trades recorded for the order being added, and the resting orders
\* they name.
RowTrades == { k \in DOMAIN trades : trades[k].trade_time = new_order.trans_time }
RowPassive ==
  { IF new_order.buy_sell_indicator = BUY
    THEN trades[k].sell_order_number ELSE trades[k].buy_order_number : k \in RowTrades }

\* C27: a row that was taken is processed to its end, a return or an error.
\* While it is matched, orders only leave the opposite side; every trade takes
\* one resting order out of the book or has satisfied the incoming order, in
\* which case the loop ends; no two trades of one incoming order are with the
\* same resting order, so that there are no more trades than orders rested on
\* the opposite side; and the next row is taken only when the handler has
\* returned.
C27_EventsRunToCompletion ==
  /\ [][/\ pc \in {"while", "for"}
             => OrdersOn(book', Opposite(new_order.buy_sell_indicator))
                  \subseteq OrdersOn(book, Opposite(new_order.buy_sell_indicator))
        /\ TradeStep
             => LET opp == Opposite(new_order.buy_sell_indicator)
                IN  \/ Cardinality(OrdersOn(book', opp))
                         = Cardinality(OrdersOn(book, opp)) - 1
                    \/ volume_original' = 0 /\ pc' = "while"
        /\ (pc = "while" /\ volume_original = 0) => pc' = "idle"
        /\ nevents' # nevents => (pc = "idle" /\ keys = << >>)]_vars
  /\ [](pc \in {"while", "for"} => Cardinality(RowPassive) = Cardinality(RowTrades))
  /\ (pc \in {"dispatch", "while", "for"}) ~> (pc \in {"idle", "error"})

\* C27 witness: the third row has traded with two resting orders, one after
\* the other, and its handler has returned.
C27_Witness ==
  /\ pc = "idle"
  /\ err = ""
  /\ nevents = 3
  /\ trade_counter = 3
  /\ trades[Fmt08(1)].trade_time = 3
  /\ trades[Fmt08(2)].trade_time = 3

\* C28: every order in the book has a volume_original of at least 1 and is a
\* limit order.
C28_RestingOrdersArePositiveLimits ==
  \A d \in Sides : \A p \in DOMAIN book[d] : \A i \in 1..Len(book[d][p]) :
    /\ book[d][p][i].volume_original >= 1
    /\ book[d][p][i].mkt_flag = "N"

\* C28 witness: a resting order of volume 3 was filled in part by a market
\* order of volume 1 and rests with volume 2.
C28_Witness ==
  /\ pc = "idle"
  /\ trade_counter = 2
  /\ \E d \in Sides : \E p \in DOMAIN book[d] :
       /\ book[d][p] # << >>
       /\ book[d][p][1].volume_original = 2
       /\ book[d][p][1].order_number \in
            { trades[Fmt08(1)].buy_order_number, trades[Fmt08(1)].sell_order_number }

====
